---- MODULE Spec2Model ----
(***************************************************************************)
(* Model of DocumentChunker (src/src/document_processing/chunker.py):      *)
(* the content classifier, the quality evaluator, the fixed-size and the   *)
(* sentence splitters and the chunk_document orchestrator.                 *)
(*                                                                         *)
(* A Python str is a sequence of one-character strings.  Positions in the  *)
(* source are 0-based; Slice(s, a, b) is the source's s[a:b] for           *)
(* 0 <= a <= b <= len(s), PySlice adds Python's handling of negative and   *)
(* out-of-range indices.                                                   *)
(***************************************************************************)
EXTENDS Integers, Sequences, FiniteSets, TLC

(***************************************************************************)
(* Bounds of the model.                                                    *)
(***************************************************************************)
\* a document's content is the concatenation of at most MaxPieces blocks
MaxPieces == 3

(***************************************************************************)
(* Thresholds of the source.                                               *)
(***************************************************************************)
MIN_CHUNK_LEN == 80
TOC_MAX_LEN == 800
HEADER_MAX_LINES == 3
HEADER_LINE_LEN == 100
REPETITIVE_MIN_WORDS == 10
MIN_WORDS == 8
DIVERSITY_MIN_WORDS == 15
MIN_AVG_SENTENCE == 25
MAX_AVG_SENTENCE == 300
SCORE_MIN_AVG == 40
SCORE_MAX_AVG == 200
MIN_PROGRESS == 10
MIN_SENTENCE_LEN == 20

(***************************************************************************)
(* Characters.                                                             *)
(***************************************************************************)
LowerSeq == <<"a", "b", "c", "d", "e", "f", "g", "h", "i", "j", "k", "l", "m",
              "n", "o", "p", "q", "r", "s", "t", "u", "v", "w", "x", "y", "z">>
UpperSeq == <<"A", "B", "C", "D", "E", "F", "G", "H", "I", "J", "K", "L", "M",
              "N", "O", "P", "Q", "R", "S", "T", "U", "V", "W", "X", "Y", "Z">>
LowerAlpha == {LowerSeq[i] : i \in 1..26}
UpperAlpha == {UpperSeq[i] : i \in 1..26}
\* [a-zA-Z]
Letters == LowerAlpha \cup UpperAlpha
\* \w of the re module, restricted to ASCII
WordChars == Letters \cup {"0", "1", "2", "3", "4", "5", "6", "7", "8", "9", "_"}
\* [.!?]
Punct == {".", "!", "?"}
\* \s of the re module and the characters str.strip() removes
Space == {" ", "\n", "\t", "\r", "\f"}
\* [\.\-\=\*]
Special == {".", "-", "=", "*"}

\* str.lower() on one character
LowerChar(c) ==
  IF c \in UpperAlpha THEN LowerSeq[CHOOSE i \in 1..26 : UpperSeq[i] = c] ELSE c

\* str.lower()
Lower(s) == [i \in 1..Len(s) |-> LowerChar(s[i])]

(***************************************************************************)
(* String primitives.                                                      *)
(***************************************************************************)
Min(a, b) == IF a < b THEN a ELSE b
Max(a, b) == IF a > b THEN a ELSE b

\* s[a:b] for 0 <= a, b <= len(s); empty when a >= b
Slice(s, a, b) == IF a < b THEN [i \in 1..(b - a) |-> s[a + i]] ELSE <<>>

\* a slice index as Python normalises it: negative counts from the end,
\* then the index is clamped to 0..len
PyIndex(i, n) == IF i < 0 THEN Max(i + n, 0) ELSE Min(i, n)

\* s[a:b] for any integers a, b
PySlice(s, a, b) == Slice(s, PyIndex(a, Len(s)), PyIndex(b, Len(s)))

\* number of leading whitespace characters of s, counted from offset i
RECURSIVE LeadingSpace(_, _)
LeadingSpace(s, i) ==
  IF i < Len(s) /\ s[i + 1] \in Space THEN LeadingSpace(s, i + 1) ELSE i

\* 0-based end of s without its trailing whitespace, scanning down from i
RECURSIVE TrailingEnd(_, _)
TrailingEnd(s, i) ==
  IF i > 0 /\ s[i] \in Space THEN TrailingEnd(s, i - 1) ELSE i

\* str.strip()
Strip(s) ==
  LET a == LeadingSpace(s, 0)
  IN  IF a = Len(s) THEN <<>> ELSE Slice(s, a, TrailingEnd(s, Len(s)))

\* sub in s, at 0-based offset i
MatchAt(s, sub, i) ==
  /\ i + Len(sub) <= Len(s)
  /\ \A j \in 1..Len(sub) : s[i + j] = sub[j]

\* sub in s
Contains(s, sub) == \E i \in 0..(Len(s) - Len(sub)) : MatchAt(s, sub, i)

\* s.count(sub) for a sub that cannot overlap itself (as 'page' cannot)
Count(s, sub) == Cardinality({i \in 0..(Len(s) - Len(sub)) : MatchAt(s, sub, i)})

\* s.rfind(' ') : 0-based index of the last space, -1 if none
RECURSIVE RFindFrom(_, _)
RFindFrom(s, i) ==
  IF i = 0 THEN -1 ELSE IF s[i] = " " THEN i - 1 ELSE RFindFrom(s, i - 1)

RFindSpace(s) == RFindFrom(s, Len(s))

\* 0-based end of the maximal run of characters of class cls starting at
\* 0-based offset i
RECURSIVE RunEnd(_, _, _)
RunEnd(s, cls, i) ==
  IF i < Len(s) /\ s[i + 1] \in cls THEN RunEnd(s, cls, i + 1) ELSE i

\* 0-based end of the maximal run of characters outside cls starting at i
RECURSIVE RunEndNot(_, _, _)
RunEndNot(s, cls, i) ==
  IF i < Len(s) /\ s[i + 1] \notin cls THEN RunEndNot(s, cls, i + 1) ELSE i

\* 0-based starts of the maximal runs of characters of class cls
RunStarts(s, cls) ==
  {i \in 0..(Len(s) - 1) : s[i + 1] \in cls /\ (i = 0 \/ s[i] \notin cls)}

\* 0-based starts of the maximal runs of characters outside cls
RunStartsNot(s, cls) ==
  {i \in 0..(Len(s) - 1) : s[i + 1] \notin cls /\ (i = 0 \/ s[i] \in cls)}

\* sum of f over a finite set of integers
RECURSIVE SumOver(_, _)
SumOver(S, f) ==
  IF S = {} THEN 0
  ELSE LET x == CHOOSE y \in S : TRUE IN f[x] + SumOver(S \ {x}, f)

(***************************************************************************)
(* Text blocks the documents of the model are made of.                     *)
(***************************************************************************)
\* four lines of distinct words, one sentence end: passes the quality filter
G1 ==
  <<"a", "l", "p", "h", "a", " ", "b", "e", "t", "a", " ", "g", "a", "m", "m", "a",
    " ", "d", "e", "l", "t", "a", "\n", "e", "p", "s", "i", "l", "o", "n", " ", "z",
    "e", "t", "a", " ", "t", "h", "e", "t", "a", " ", "i", "o", "t", "a", "\n", "k",
    "a", "p", "p", "a", " ", "l", "a", "m", "b", "d", "a", " ", "s", "i", "g", "m",
    "a", " ", "o", "m", "e", "g", "a", "\n", "w", "a", "t", "e", "r", " ", "s", "t",
    "o", "n", "e", " ", "c", "l", "o", "u", "d", " ", "r", "i", "v", "e", "r", ".",
    " ">>

\* short sentences and a front-matter word
G2 ==
  <<"I", "s", "b", "n", "?", " ", "I", "t", " ", "r", "a", "i", "n", "s", ".", " ",
    "W", "e", " ", "w", "a", "i", "t", "!", " ", "N", "o", "b", "o", "d", "y", " ",
    "d", "o", "e", "s", ".", " ">>

\* whitespace only
WS ==
  <<" ", " ", " ", " ", " ", " ", " ", " ", " ", " ", " ", " ", " ", " ", " ", " ",
    " ", " ", " ", " ", " ", " ", " ", " ", " ", " ", " ", " ", " ", " ">>

\* a table-of-contents line and a paragraph break
NZ ==
  <<"P", "a", "g", "e", " ", "p", "a", "g", "e", ".", ".", ".", ".", ".", ".", "\n",
    "\n">>

\* a repeated word and a long run of dots
DT ==
  <<"t", "i", "c", " ", "t", "i", "c", " ", "t", "i", "c", " ", "t", "i", "c", " ",
    ".", ".", ".", ".", ".", ".", ".", ".", ".", ".", ".", ".", ".", ".", ".", ".",
    ".", ".", ".", ".", ".", ".", ".", ".", ".", ".", ".", ".", ".", ".", ".", ".",
    ".", ".", ".", ".", ".", ".", ".", ".", " ">>

Blocks == <<G1, G2, WS, NZ, DT>>

(***************************************************************************)
(* Content classifier: classify_content_type.                              *)
(***************************************************************************)
ContentTypes == {"front_matter", "toc", "header", "repetitive", "main_content"}

front_matter_indicators ==
  {<<"p", "u", "b", "l", "i", "s", "h", "e", "d", " ", "b", "y">>,
   <<"c", "o", "p", "y", "r", "i", "g", "h", "t">>,
   <<"a", "l", "l", " ", "r", "i", "g", "h", "t", "s", " ", "r", "e", "s", "e", "r", "v", "e", "d">>,
   <<"i", "s", "b", "n">>,
   <<"f", "i", "r", "s", "t", " ", "e", "d", "i", "t", "i", "o", "n">>,
   <<"p", "r", "i", "n", "t", "e", "d", " ", "i", "n">>,
   <<"d", "i", "s", "t", "r", "i", "b", "u", "t", "e", "d", " ", "b", "y">>}

toc_indicators ==
  {<<"c", "o", "n", "t", "e", "n", "t", "s">>,
   <<"c", "h", "a", "p", "t", "e", "r", "s">>,
   <<"p", "a", "g", "e">>}

PageWord == <<"p", "a", "g", "e">>
DotLeader == <<".", ".", ".", ".", ".", ".">>

\* len(text.split('\n'))
LineCount(text) == Cardinality({i \in 1..Len(text) : text[i] = "\n"}) + 1

\* all(len(line) < k for line in text.split('\n')): the line that starts at
\* offset p ends within k characters
AllLinesShorter(text, k) ==
  \A p \in {0} \cup {i \in 1..Len(text) : text[i] = "\n"} :
     \E j \in (p + 1)..Min(p + k, Len(text) + 1) :
        j = Len(text) + 1 \/ text[j] = "\n"

\* text.split(): the whitespace-separated tokens, as (count, distinct)
SplitWords(text) ==
  LET starts == RunStartsNot(text, Space)
  IN  [total  |-> Cardinality(starts),
       unique |-> Cardinality({Slice(text, i, RunEndNot(text, Space, i)) :
                               i \in starts})]

\* classify_content_type with the header rule skipped for an empty text
classify_skipping_empty(text) ==
  LET text_lower == Lower(text)
      words == SplitWords(text)
  IN  IF \E indicator \in front_matter_indicators :
            Contains(text_lower, indicator)
      THEN "front_matter"
      ELSE IF /\ \E word \in toc_indicators : Contains(text_lower, word)
              /\ Len(text) < TOC_MAX_LEN
              /\ (Count(text_lower, PageWord) > 1 \/ Contains(text, DotLeader))
      THEN "toc"
      ELSE IF /\ text # <<>>
              /\ LineCount(text) <= HEADER_MAX_LINES
              /\ AllLinesShorter(text, HEADER_LINE_LEN)
      THEN "header"
      ELSE IF /\ words.total > REPETITIVE_MIN_WORDS
              /\ 10 * words.unique < 3 * words.total
      THEN "repetitive"
      ELSE "main_content"

classify_content_type(text) ==
  LET text_lower == Lower(text)
      words == SplitWords(text)
  IN  IF \E indicator \in front_matter_indicators :
            Contains(text_lower, indicator)
      THEN "front_matter"
      ELSE IF /\ \E word \in toc_indicators : Contains(text_lower, word)
              /\ Len(text) < TOC_MAX_LEN
              /\ (Count(text_lower, PageWord) > 1 \/ Contains(text, DotLeader))
      THEN "toc"
      ELSE IF /\ LineCount(text) <= HEADER_MAX_LINES
              /\ AllLinesShorter(text, HEADER_LINE_LEN)
      THEN "header"
      ELSE IF /\ words.total > REPETITIVE_MIN_WORDS
              /\ 10 * words.unique < 3 * words.total
      THEN "repetitive"
      ELSE "main_content"

(***************************************************************************)
(* Quality evaluator: is_quality_chunk and calculate_quality_score.        *)
(***************************************************************************)
\* re.findall(r'\b[a-zA-Z]{3,}\b', s): the maximal letter runs of three or
\* more letters that no digit or underscore touches, as (count, distinct)
RegexWords(s) ==
  LET starts == {i \in RunStarts(s, Letters) :
                   LET e == RunEnd(s, Letters, i)
                   IN  /\ e - i >= 3
                       /\ (i = 0 \/ s[i] \notin WordChars)
                       /\ (e = Len(s) \/ s[e + 1] \notin WordChars)}
  IN  [total  |-> Cardinality(starts),
       unique |-> Cardinality({Slice(s, i, RunEnd(s, Letters, i)) : i \in starts})]

\* re.findall(r'[^.!?]+[.!?]', s): every maximal run of non-punctuation that
\* a punctuation mark follows, with that mark; as (count, total length)
RegexSentences(s) ==
  LET starts == {i \in RunStartsNot(s, Punct) : RunEndNot(s, Punct, i) < Len(s)}
  IN  [count |-> Cardinality(starts),
       chars |-> SumOver(starts, [i \in starts |-> RunEndNot(s, Punct, i) - i + 1])]

\* re.findall(r'[.!?]+', s): the maximal punctuation runs
RegexPunctRuns(s) ==
  LET starts == RunStarts(s, Punct)
  IN  [count |-> Cardinality(starts),
       chars |-> SumOver(starts, [i \in starts |-> RunEnd(s, Punct, i) - i])]

is_quality_chunk(cs, chunk_content) ==
  LET content == Strip(chunk_content)
      n == Len(content)
      words == RegexWords(content)
      sentences == RegexSentences(content)
      special_chars == Cardinality({i \in 1..n : content[i] \in Special})
      text_chars == Cardinality({i \in 1..n : content[i] \notin {" ", "\n"}})
  IN  /\ ~(n < MIN_CHUNK_LEN \/ 2 * n > 3 * cs)
      /\ classify_content_type(content) \notin {"front_matter", "toc", "header"}
      /\ ~(words.total < MIN_WORDS)
      /\ ~(2 * words.unique < words.total /\ words.total > DIVERSITY_MIN_WORDS)
      /\ (sentences.count >= 2 =>
            ~(\/ sentences.chars < MIN_AVG_SENTENCE * sentences.count
              \/ sentences.chars > MAX_AVG_SENTENCE * sentences.count))
      /\ ~(5 * special_chars > n)
      /\ ~(5 * text_chars < 3 * n)

\* LengthScore with the lower end of the first band missing
LengthScoreNoLowerEnd(cs, n) ==
  IF n <= cs THEN 4
  ELSE IF 5 * cs <= 10 * n /\ 10 * n <= 12 * cs THEN 2
  ELSE 0

\* length score in tenths: 4 when len/chunk_size is in [0.7, 1.0], else 2
\* when it is in [0.5, 1.2], else 0
LengthScore(cs, n) ==
  IF 7 * cs <= 10 * n /\ n <= cs THEN 4
  ELSE IF 5 * cs <= 10 * n /\ 10 * n <= 12 * cs THEN 2
  ELSE 0

\* sentence structure score in tenths
StructureScore(text) ==
  LET sentences == RegexPunctRuns(text)
  IN  IF /\ sentences.count >= 2
         /\ SCORE_MIN_AVG * sentences.count <= sentences.chars
         /\ sentences.chars <= SCORE_MAX_AVG * sentences.count
      THEN 3 ELSE 0

\* The score as the exact fraction num/den:
\*   LengthScore/10 + (unique/total) * 3/10 + StructureScore/10, capped at 1.
calculate_quality_score(cs, text) ==
  LET words == RegexWords(text)
      w == IF words.total >= MIN_WORDS THEN words.total ELSE 1
      u == IF words.total >= MIN_WORDS THEN words.unique ELSE 0
      num == (LengthScore(cs, Len(text)) + StructureScore(text)) * w + 3 * u
      den == 10 * w
  IN  [num |-> Min(den, num), den |-> den]

(***************************************************************************)
(* Fixed-size splitter: the boundary search of chunk_by_fixed_size.        *)
(***************************************************************************)
SetMax(S) == CHOOSE x \in S : \A y \in S : y <= x
SetMin(S) == CHOOSE x \in S : \A y \in S : x <= y

\* list(re.finditer(r'[.!?]\s+', s)): one punctuation mark and the
\* whitespace run after it; as (count, end of the last match)
SentenceBreaks(s) ==
  LET at == {i \in 1..(Len(s) - 1) : s[i] \in Punct /\ s[i + 1] \in Space}
  IN  [count |-> Cardinality(at),
       last_end |-> IF at = {} THEN -1 ELSE RunEnd(s, Space, SetMax(at))]

\* list(re.finditer(r'\n\s*\n', s)): in a whitespace run that holds two or
\* more newlines the match goes from the first newline to the last one (\s*
\* is greedy and gives back up to the last newline).  The end of the last
\* match, -1 if there is none.
ParagraphBreakEnd(s) ==
  LET newlines(r) == {j \in (r + 1)..RunEnd(s, Space, r) : s[j] = "\n"}
      ends == {SetMax(newlines(r)) :
                 r \in {q \in RunStarts(s, Space) : Cardinality(newlines(q)) >= 2}}
  IN  IF ends = {} THEN -1 ELSE SetMax(ends)

\* Lines 140-169: the window that starts at the cursor.  brk is the break of
\* line 146; otherwise end and chunk_content are the values that reach
\* line 172.
FixedWindow(text, cs, cursor) ==
  LET n == Len(text)
      end0 == Min(cursor + cs, n)
      chunk0 == Strip(PySlice(text, cursor, end0))
      sentence_breaks == SentenceBreaks(chunk0)
      paragraph_end == ParagraphBreakEnd(chunk0)
      last_space == RFindSpace(chunk0)
      cut == IF sentence_breaks.count > 1 THEN sentence_breaks.last_end
             ELSE IF paragraph_end # -1 THEN paragraph_end
             ELSE IF 5 * last_space > 3 * cs THEN last_space
             ELSE -1
      snap == IF sentence_breaks.count > 1 THEN "sentence"
              ELSE IF paragraph_end # -1 THEN "paragraph"
              ELSE IF 5 * last_space > 3 * cs THEN "word"
              ELSE "none"
  IN  IF chunk0 = <<>>
      THEN [brk |-> TRUE, end |-> end0, chunk_content |-> <<>>, snap |-> "none"]
      ELSE IF end0 < n /\ cut # -1
      THEN [brk |-> FALSE, end |-> cursor + cut,
            chunk_content |-> Strip(PySlice(text, cursor, cursor + cut)),
            snap |-> snap]
      ELSE [brk |-> FALSE, end |-> end0, chunk_content |-> chunk0, snap |-> "none"]

\* InlineAccept without the quality test
InlineAcceptNonEmpty(cs, chunk_content) == chunk_content # <<>>

\* Line 172: the inline quality filter of the fixed-size splitter
InlineAccept(cs, chunk_content) ==
  chunk_content # <<>> /\ is_quality_chunk(cs, chunk_content)

\* NextChunkId that counts every candidate
NextChunkIdEveryCandidate(id, appended) == id + 1

\* Lines 185 and 228: chunk_id += 1, inside the branch that appends
NextChunkId(id, appended) == IF appended THEN id + 1 ELSE id

\* MoveStart that steps over one character
MoveStartSkipping(window_end, overlap) ==
  IF overlap > 0 THEN window_end - overlap ELSE window_end + 1

\* Lines 187-191: the cursor moved back by the overlap
MoveStart(window_end, overlap) ==
  IF overlap > 0 THEN window_end - overlap ELSE window_end

\* ForceProgress that never forces
ForceProgressNever(window_end, moved) == moved

\* Lines 193-195: the minimum progress check
ForceProgress(window_end, moved) ==
  IF moved <= window_end - MIN_PROGRESS THEN window_end ELSE moved

\* Lines 187-195: the cursor after a window that ended at window_end
NextStart(window_end, overlap) ==
  ForceProgress(window_end, MoveStart(window_end, overlap))

\* FixedChunk with the end of the window as it was before the boundary search
FixedChunkUnsnappedEnd(cs, chunk_content, id, from, to) ==
  [content  |-> chunk_content,
   chunk_id |-> id,
   metadata |-> [chunk_size        |-> Len(chunk_content),
                 chunking_strategy |-> "fixed_size",
                 quality_score     |-> calculate_quality_score(cs, chunk_content),
                 content_type      |-> classify_content_type(chunk_content),
                 start_pos         |-> from,
                 end_pos           |-> from + cs]]

\* Lines 173-184: the chunk the fixed-size splitter appends
FixedChunk(cs, chunk_content, id, from, to) ==
  [content  |-> chunk_content,
   chunk_id |-> id,
   metadata |-> [chunk_size        |-> Len(chunk_content),
                 chunking_strategy |-> "fixed_size",
                 quality_score     |-> calculate_quality_score(cs, chunk_content),
                 content_type      |-> classify_content_type(chunk_content),
                 start_pos         |-> from,
                 end_pos           |-> to]]

(***************************************************************************)
(* Sentence splitter: the pure parts of chunk_by_sentences_enhanced.       *)
(***************************************************************************)
\* starts of the matches of self.sentence_endings, [.!?]+[\s\n]+ : a maximal
\* punctuation run that whitespace follows
SentenceEndingStarts(s) ==
  {i \in RunStarts(s, Punct) :
     LET e == RunEnd(s, Punct, i) IN e < Len(s) /\ s[e + 1] \in Space}

\* end of the match that starts at i: the punctuation run and the whole
\* whitespace run after it
SentenceEndingEnd(s, i) == RunEnd(s, Space, RunEnd(s, Punct, i))

\* the pieces of s between the matches, from offset from on
RECURSIVE SplitPieces(_, _, _)
SplitPieces(s, starts, from) ==
  IF starts = {} THEN <<Slice(s, from, Len(s))>>
  ELSE LET m == SetMin(starts)
       IN  <<Slice(s, from, m)>> \o
           SplitPieces(s, starts \ {m}, SentenceEndingEnd(s, m))

\* self.sentence_endings.split(content), line 204
RegexSplit(s) == SplitPieces(s, SentenceEndingStarts(s), 0)

\* KeepFragment with the threshold itself kept
KeepFragmentFromThreshold(fragment) ==
  Strip(fragment) # <<>> /\ Len(Strip(fragment)) >= MIN_SENTENCE_LEN

\* line 205: the fragment is kept
KeepFragment(fragment) ==
  Strip(fragment) # <<>> /\ Len(Strip(fragment)) > MIN_SENTENCE_LEN

\* lines 204-205
SplitSentences(s) ==
  LET pieces == SelectSeq(RegexSplit(s), KeepFragment)
  IN  [i \in 1..Len(pieces) |-> Strip(pieces[i])]

\* ' '.join(list)
RECURSIVE Join(_)
Join(list) ==
  IF list = <<>> THEN <<>>
  ELSE IF Len(list) = 1 THEN list[1]
  ELSE list[1] \o <<" ">> \o Join(Tail(list))

\* line 214: the buffer is closed before the sentence is appended
ClosesBuffer(cs, buffer, sentence) ==
  Len(buffer) + Len(sentence) > cs /\ buffer # <<>>

\* OverlapTail that keeps one sentence
OverlapTailLastOnly(overlap, buffer_sentences) ==
  IF overlap > 0 /\ buffer_sentences # <<>>
  THEN SubSeq(buffer_sentences, Len(buffer_sentences), Len(buffer_sentences))
  ELSE <<>>

\* lines 231-238: the sentences the next buffer starts with
OverlapTail(overlap, buffer_sentences) ==
  IF overlap > 0 /\ buffer_sentences # <<>>
  THEN LET overlap_count == Max(1, Min(3, Len(buffer_sentences) \div 3))
       IN  SubSeq(buffer_sentences, Len(buffer_sentences) - overlap_count + 1,
                  Len(buffer_sentences))
  ELSE <<>>

\* SentenceChunk with the size taken before the buffer is re-joined, when it
\* still ends with the separator of line 235
SentenceChunkCountingSeparator(cs, buffer, buffer_sentences, id) ==
  [content  |-> Strip(buffer),
   chunk_id |-> id,
   metadata |-> [chunk_size        |-> Len(buffer \o <<" ">>),
                 chunking_strategy |-> "sentence_based",
                 sentence_count    |-> Len(buffer_sentences),
                 quality_score     |-> calculate_quality_score(cs, buffer \o <<" ">>),
                 content_type      |-> classify_content_type(buffer \o <<" ">>)]]

\* lines 217-227 and 245-255: the chunk the sentence splitter appends
SentenceChunk(cs, buffer, buffer_sentences, id) ==
  [content  |-> Strip(buffer),
   chunk_id |-> id,
   metadata |-> [chunk_size        |-> Len(buffer),
                 chunking_strategy |-> "sentence_based",
                 sentence_count    |-> Len(buffer_sentences),
                 quality_score     |-> calculate_quality_score(cs, buffer),
                 content_type      |-> classify_content_type(buffer)]]

(***************************************************************************)
(* Documents and configurations of the model.                              *)
(***************************************************************************)
RECURSIVE Concat(_)
Concat(ps) == IF ps = <<>> THEN <<>> ELSE Blocks[Head(ps)] \o Concat(Tail(ps))

PieceLists == UNION {[1..n -> 1..Len(Blocks)] : n \in 0..MaxPieces}

Contents == {Concat(ps) : ps \in PieceLists}

FullMetadata == [file_path |-> "book.txt", file_type |-> "txt", page_count |-> 3]

\* the empty dict
EmptyDoc == [k \in {} |-> <<>>]

WellFormedDocs == {[content |-> c, metadata |-> FullMetadata] : c \in Contents}

MalformedDocs ==
  {[content |-> G1], [metadata |-> FullMetadata], EmptyDoc,
   [content |-> G1, metadata |-> [file_type |-> "txt"]]}

Documents == WellFormedDocs \cup MalformedDocs

WellFormed(doc) ==
  /\ {"content", "metadata"} \subseteq DOMAIN doc
  /\ {"file_path", "file_type"} \subseteq DOMAIN doc.metadata

ValidStrategies == {"fixed_size", "sentence"}
Strategies == ValidStrategies \cup {"paragraph", "FIXED_SIZE"}
ChunkSizes == {25, 100}
Overlaps == {0, 5, 12}

(***************************************************************************)
(* Prose documents: sentences whose lengths lie around the threshold of    *)
(* line 205, for the sentence splitter.                                    *)
(***************************************************************************)
\* a prose document holds at most MaxSentences sentences of mixed kinds, or
\* at most MaxRepeat sentences of one kind
MaxSentences == 4
MaxRepeat == 14

\* a fragment of 21 characters
S21 ==
  <<"a", "b", "c", "d", "e", "f", "g", "h", "i", "j", " ", "k", "l", "m", "n", "o",
    "p", "q", "r", "s", "t">>

\* a fragment of 22 characters
T22 ==
  <<"u", "v", "w", "x", "y", "z", "a", "b", "c", "d", " ", "e", "f", "g", "h", "i",
    "j", "k", "l", "m", "n", "o">>

\* a fragment of 20 characters
F20 ==
  <<"a", "b", "c", "d", "e", "f", "g", "h", "i", "j", " ", "k", "l", "m", "n", "o",
    "p", "q", "r", "s">>

\* a fragment of 19 characters
F19 ==
  <<"a", "b", "c", "d", "e", "f", "g", "h", "i", "j", " ", "k", "l", "m", "n", "o",
    "p", "q", "r">>

\* a sentence end: one punctuation mark and one space
Stop == <<".", " ">>

\* the fragments of a list, each followed by a sentence end
RECURSIVE Prose(_)
Prose(fragments) ==
  IF fragments = <<>> THEN <<>>
  ELSE Head(fragments) \o Stop \o Prose(Tail(fragments))

MixedBodies == UNION {[1..n -> {S21, T22}] : n \in 0..MaxSentences}

UniformBodies == {[i \in 1..n |-> S21] : n \in 1..MaxRepeat}

\* a fragment at or below the threshold in front of at most two sentences
ShortLed ==
  {<<f>> \o body : f \in {F19, F20}, body \in {b \in MixedBodies : Len(b) <= 2}}

ProseContents == {Prose(body) : body \in MixedBodies \cup UniformBodies \cup ShortLed}

ProseDocuments == {[content |-> c, metadata |-> FullMetadata] : c \in ProseContents}

ProseChunkSizes == {42, 150, 300}
ProseOverlaps == {0, 5}

\* the content whose evaluations by is_quality_chunk are remembered: a buffer
\* of six sentences
Probe == Join(<<S21, S21, S21, S21, S21, S21>>)

ProseTexts == {Probe, Prose(<<S21, T22>>)}

(***************************************************************************)
(* State.                                                                  *)
(***************************************************************************)
VARIABLES
  chunk_size,        \* self.chunk_size
  chunk_overlap,     \* self.chunk_overlap
  pc,                \* "idle", inside a call, or "returned" / "raised"
  op,                \* the method called
  document,          \* argument of chunk_document
  strategy,          \* argument of chunk_document
  text,              \* argument of the classifier and evaluator calls
  start,             \* cursor of chunk_by_fixed_size
  end,               \* end of the last window of chunk_by_fixed_size
  chunk_id,          \* next chunk_id of the running splitter
  chunks,            \* list of the running splitter
  sentences,         \* sentence list of chunk_by_sentences_enhanced
  sent_idx,          \* position of its for loop in sentences
  current_chunk,     \* its buffer text
  current_sentences, \* its buffer, as a list of sentences
  ret,               \* list returned by chunk_document
  value,             \* value returned by a classifier or evaluator call
  err,               \* exception raised by the call, "none" if none
  tick,              \* parity of the steps the running call has executed
  accepted,          \* history: contents of the candidates that satisfy is_quality_chunk
  rejected_at,       \* history: numbers of accepted candidates at which one was rejected
  examined,          \* history: content positions inside the windows [start, end)
  iterated,          \* history: the fixed-size loop completed an iteration
  closed,            \* history: sentence lists of the buffers closed so far
  verdicts           \* history: first and last value of is_quality_chunk(Probe)
                     \* since the chunker's parameters were set

vars == <<chunk_size, chunk_overlap, pc, op, document, strategy, text, start, end,
          chunk_id, chunks, sentences, sent_idx, current_chunk, current_sentences,
          ret, value, err, tick, accepted, rejected_at, examined, iterated,
          closed, verdicts>>

config == <<chunk_size, chunk_overlap>>
fixed_locals == <<start, end>>
sentence_locals == <<sentences, sent_idx, current_chunk, current_sentences>>
locals == <<start, end, chunk_id, chunks, sentences, sent_idx, current_chunk,
            current_sentences>>
history == <<accepted, rejected_at, examined, iterated, closed>>

NoDoc == [k \in {} |-> <<>>]

\* history: is_quality_chunk was called with content c and returned v
Observe(seen, c, v) ==
  IF c # Probe THEN seen
  ELSE IF seen = <<>> THEN <<v>>
  ELSE <<seen[1], v>>

\* history: is_quality_chunk was called with each content of a list in turn
RECURSIVE ObserveAll(_, _, _)
ObserveAll(seen, cs, contents) ==
  IF contents = <<>> THEN seen
  ELSE ObserveAll(Observe(seen, Head(contents), is_quality_chunk(cs, Head(contents))),
                  cs, Tail(contents))

\* the caller's state between calls: only the chunker's fields persist
Cleared ==
  /\ document' = NoDoc /\ strategy' = "" /\ text' = <<>>
  /\ start' = 0 /\ end' = 0 /\ chunk_id' = 0 /\ chunks' = <<>>
  /\ sentences' = <<>> /\ sent_idx' = 1
  /\ current_chunk' = <<>> /\ current_sentences' = <<>>
  /\ ret' = <<>> /\ value' = <<>> /\ err' = "none" /\ tick' = 0
  /\ accepted' = <<>> /\ rejected_at' = {} /\ examined' = {} /\ iterated' = FALSE
  /\ closed' = <<>>

\* DocumentChunker(chunk_size, chunk_overlap), lines 20-22
Init ==
  /\ chunk_size \in ChunkSizes
  /\ chunk_overlap \in Overlaps
  /\ pc = "idle" /\ op = ""
  /\ document = NoDoc /\ strategy = "" /\ text = <<>>
  /\ start = 0 /\ end = 0 /\ chunk_id = 0 /\ chunks = <<>>
  /\ sentences = <<>> /\ sent_idx = 1
  /\ current_chunk = <<>> /\ current_sentences = <<>>
  /\ ret = <<>> /\ value = <<>> /\ err = "none" /\ tick = 0
  /\ accepted = <<>> /\ rejected_at = {} /\ examined = {} /\ iterated = FALSE
  /\ closed = <<>>
  /\ verdicts = <<>>

(***************************************************************************)
(* chunk_document, lines 259-272: argument look-ups and dispatch.  The     *)
(* splitter's own initialisation (lines 130-136, lines 201-210) is part of *)
(* the step.                                                               *)
(***************************************************************************)
\* Dispatch with the fixed-size splitter as the fallback
DispatchWithDefault(strat) ==
  IF strat = "sentence" THEN "sentence" ELSE "fixed"

\* lines 267-272
Dispatch(strat) ==
  IF strat = "fixed_size" THEN "fixed"
  ELSE IF strat = "sentence" THEN "sentence"
  ELSE "raised"

\* lines 261-264: the look-ups document["content"], document["metadata"] and
\* base_metadata['file_path'] succeed
LookupsSucceed(doc) ==
  /\ "content" \in DOMAIN doc
  /\ "metadata" \in DOMAIN doc
  /\ "file_path" \in DOMAIN doc.metadata

\* EntryError with the strategy validated before the look-ups
EntryErrorStrategyFirst(doc, strat) ==
  IF strat \notin {"fixed_size", "sentence"} THEN "ValueError"
  ELSE IF ~LookupsSucceed(doc) THEN "KeyError"
  ELSE "none"

\* lines 261-272: the exception chunk_document raises before it splits
EntryError(doc, strat) ==
  IF ~LookupsSucceed(doc) THEN "KeyError"
  ELSE IF Dispatch(strat) = "raised" THEN "ValueError"
  ELSE "none"

chunk_document(doc, strat) ==
  /\ pc = "idle"
  /\ op' = "chunk_document"
  /\ document' = doc
  /\ strategy' = strat
  /\ err' = EntryError(doc, strat)
  /\ pc' = IF EntryError(doc, strat) # "none" THEN "raised" ELSE Dispatch(strat)
  /\ start' = 0 /\ end' = 0 /\ chunk_id' = 0 /\ chunks' = <<>>
  /\ sentences' = IF pc' = "sentence" THEN SplitSentences(doc.content) ELSE <<>>
  /\ sent_idx' = 1
  /\ current_chunk' = <<>> /\ current_sentences' = <<>>
  /\ ret' = <<>>
  /\ tick' = 0
  /\ UNCHANGED <<config, text, value, history, verdicts>>

(***************************************************************************)
(* chunk_by_fixed_size, lines 138-197: one iteration of the while loop.    *)
(***************************************************************************)
WindowPositions(n, from, to) == PyIndex(from, n)..(PyIndex(to, n) - 1)

FixedIter ==
  /\ pc = "fixed"
  /\ start < Len(document.content)
  /\ LET w == FixedWindow(document.content, chunk_size, start)
         ok == InlineAccept(chunk_size, w.chunk_content)
         n == Len(document.content)
     IN  /\ end' = w.end
         /\ examined' = examined \cup WindowPositions(n, start, w.end)
         /\ closed' = closed
         /\ IF w.brk
            THEN /\ pc' = "filter"
                 /\ UNCHANGED <<start, chunk_id, chunks, accepted, rejected_at,
                                iterated, verdicts>>
            ELSE /\ pc' = "fixed"
                 /\ verdicts' = IF w.chunk_content # <<>>
                                 THEN Observe(verdicts, w.chunk_content,
                                              is_quality_chunk(chunk_size, w.chunk_content))
                                 ELSE verdicts
                 /\ iterated' = TRUE
                 /\ chunks' = IF ok
                              THEN Append(chunks, FixedChunk(chunk_size, w.chunk_content,
                                                             chunk_id, start, w.end))
                              ELSE chunks
                 /\ chunk_id' = NextChunkId(chunk_id, ok)
                 /\ start' = NextStart(w.end, chunk_overlap)
                 /\ accepted' = IF is_quality_chunk(chunk_size, w.chunk_content)
                                THEN Append(accepted, w.chunk_content)
                                ELSE accepted
                 /\ rejected_at' = IF is_quality_chunk(chunk_size, w.chunk_content)
                                   THEN rejected_at
                                   ELSE rejected_at \cup {Len(accepted)}
  /\ tick' = 1 - tick
  /\ UNCHANGED <<config, op, document, strategy, text, sentence_locals, ret, value,
                 err>>

\* the loop test fails: return chunks (line 197)
FixedExit ==
  /\ pc = "fixed"
  /\ ~(start < Len(document.content))
  /\ pc' = "filter"
  /\ tick' = 1 - tick
  /\ UNCHANGED <<config, op, document, strategy, text, locals, ret, value, err,
                 history, verdicts>>

(***************************************************************************)
(* chunk_by_sentences_enhanced, lines 212-241: one iteration of the for    *)
(* loop; lines 243-257: the final buffer.                                  *)
(***************************************************************************)
SentIter ==
  /\ pc = "sentence"
  /\ sent_idx <= Len(sentences)
  /\ LET sentence == sentences[sent_idx]
         closes == ClosesBuffer(chunk_size, current_chunk, sentence)
         ok == closes /\ is_quality_chunk(chunk_size, current_chunk)
         kept == IF closes THEN OverlapTail(chunk_overlap, current_sentences)
                 ELSE current_sentences
     IN  /\ chunks' = IF ok
                      THEN Append(chunks, SentenceChunk(chunk_size, current_chunk,
                                                        current_sentences, chunk_id))
                      ELSE chunks
         /\ chunk_id' = NextChunkId(chunk_id, ok)
         /\ current_sentences' = Append(kept, sentence)
         /\ current_chunk' = Join(Append(kept, sentence))
         /\ accepted' = IF closes /\ is_quality_chunk(chunk_size, Strip(current_chunk))
                        THEN Append(accepted, Strip(current_chunk))
                        ELSE accepted
         /\ rejected_at' = IF closes /\ ~is_quality_chunk(chunk_size, Strip(current_chunk))
                           THEN rejected_at \cup {Len(accepted)}
                           ELSE rejected_at
         /\ closed' = IF closes THEN Append(closed, current_sentences) ELSE closed
         /\ verdicts' = IF closes
                         THEN Observe(verdicts, current_chunk,
                                      is_quality_chunk(chunk_size, current_chunk))
                         ELSE verdicts
  /\ sent_idx' = sent_idx + 1
  /\ pc' = "sentence"
  /\ tick' = 1 - tick
  /\ UNCHANGED <<config, op, document, strategy, text, fixed_locals, sentences,
                 ret, value, err, examined, iterated>>

SentFinish ==
  /\ pc = "sentence"
  /\ sent_idx > Len(sentences)
  /\ LET candidate == Strip(current_chunk) # <<>>
         ok == candidate /\ is_quality_chunk(chunk_size, current_chunk)
     IN  /\ chunks' = IF ok
                      THEN Append(chunks, SentenceChunk(chunk_size, current_chunk,
                                                        current_sentences, chunk_id))
                      ELSE chunks
         /\ accepted' = IF candidate /\ is_quality_chunk(chunk_size, Strip(current_chunk))
                        THEN Append(accepted, Strip(current_chunk))
                        ELSE accepted
         /\ rejected_at' = IF candidate /\ ~is_quality_chunk(chunk_size, Strip(current_chunk))
                           THEN rejected_at \cup {Len(accepted)}
                           ELSE rejected_at
         /\ closed' = closed
         /\ verdicts' = IF candidate
                         THEN Observe(verdicts, current_chunk,
                                      is_quality_chunk(chunk_size, current_chunk))
                         ELSE verdicts
  /\ pc' = "filter"
  /\ tick' = 1 - tick
  /\ UNCHANGED <<config, op, document, strategy, text, fixed_locals, chunk_id,
                 sentence_locals, ret, value, err, examined, iterated>>

(***************************************************************************)
(* chunk_document, lines 274-298: final filter, enrichment, return.        *)
(***************************************************************************)
Enrich(chunk, base_metadata) ==
  [chunk EXCEPT !.metadata =
     [source_file |-> base_metadata.file_path,
      file_type |-> base_metadata.file_type,
      original_metadata |->
        [k \in DOMAIN base_metadata \ {"file_path", "file_type"} |-> base_metadata[k]]]
     @@ chunk.metadata]

\* [chunk.content for chunk in chunks]
Contents_of(cks) == [i \in 1..Len(cks) |-> cks[i].content]

FilterQuality(cs, cks) == SelectSeq(cks, LAMBDA c : is_quality_chunk(cs, c.content))

\* FilterAndReturn that also falls back to the smallest chunk size
FilterAndReturnResizing ==
  /\ pc = "filter"
  /\ LET quality_chunks == FilterQuality(chunk_size, chunks)
     IN  IF quality_chunks # <<>> /\ "file_type" \notin DOMAIN document.metadata
         THEN pc' = "raised" /\ err' = "KeyError" /\ ret' = <<>>
         ELSE /\ pc' = "returned"
              /\ err' = "none"
              /\ ret' = [i \in 1..Len(quality_chunks) |->
                           Enrich(quality_chunks[i], document.metadata)]
  /\ verdicts' = ObserveAll(verdicts, chunk_size, Contents_of(chunks))
  /\ tick' = 1 - tick
  /\ chunk_size' = SetMin(ProseChunkSizes)
  /\ UNCHANGED <<chunk_overlap, op, document, strategy, text, locals, value, history>>

FilterAndReturn ==
  /\ pc = "filter"
  /\ LET quality_chunks == FilterQuality(chunk_size, chunks)
     IN  IF quality_chunks # <<>> /\ "file_type" \notin DOMAIN document.metadata
         THEN pc' = "raised" /\ err' = "KeyError" /\ ret' = <<>>
         ELSE /\ pc' = "returned"
              /\ err' = "none"
              /\ ret' = [i \in 1..Len(quality_chunks) |->
                           Enrich(quality_chunks[i], document.metadata)]
  /\ verdicts' = ObserveAll(verdicts, chunk_size, Contents_of(chunks))
  /\ tick' = 1 - tick
  /\ UNCHANGED <<config, op, document, strategy, text, locals, value, history>>

(***************************************************************************)
(* The other public methods, called between chunk_document calls.          *)
(***************************************************************************)
Texts == Contents

ClassifyCall(t) ==
  /\ pc = "idle"
  /\ pc' = "returned" /\ op' = "classify_content_type"
  /\ text' = t
  /\ value' = classify_content_type(t)
  /\ UNCHANGED <<config, document, strategy, locals, ret, err, tick, history,
                 verdicts>>

QualityCall(t) ==
  /\ pc = "idle"
  /\ pc' = "returned" /\ op' = "is_quality_chunk"
  /\ text' = t
  /\ value' = is_quality_chunk(chunk_size, t)
  /\ verdicts' = Observe(verdicts, t, is_quality_chunk(chunk_size, t))
  /\ UNCHANGED <<config, document, strategy, locals, ret, err, tick, history>>

ScoreCall(t) ==
  /\ pc = "idle"
  /\ pc' = "returned" /\ op' = "calculate_quality_score"
  /\ text' = t
  /\ value' = calculate_quality_score(chunk_size, t)
  /\ UNCHANGED <<config, document, strategy, locals, ret, err, tick, history,
                 verdicts>>

\* lines 300-304
set_chunking_strategy(cs, overlap) ==
  /\ pc = "idle"
  /\ chunk_size' = cs
  /\ chunk_overlap' = overlap
  /\ verdicts' = <<>>
  /\ UNCHANGED <<pc, op, document, strategy, text, locals, ret, value, err, tick,
                 history>>

\* the caller takes the result; only the chunker's fields persist
Resume ==
  /\ pc \in {"returned", "raised"}
  /\ pc' = "idle" /\ op' = ""
  /\ Cleared
  /\ UNCHANGED <<config, verdicts>>

Next ==
  \/ \E doc \in Documents, strat \in Strategies : chunk_document(doc, strat)
  \/ FixedIter
  \/ FixedExit
  \/ SentIter
  \/ SentFinish
  \/ FilterAndReturn
  \/ \E t \in Texts : ClassifyCall(t)
  \/ \E t \in Texts : QualityCall(t)
  \/ \E t \in Texts : ScoreCall(t)
  \/ \E cs \in ChunkSizes, overlap \in Overlaps : set_chunking_strategy(cs, overlap)
  \/ Resume

Spec == Init /\ [][Next]_vars

\* DocumentChunker(chunk_size, chunk_overlap) with the parameters of the prose
\* documents
ProseInit ==
  /\ chunk_size \in ProseChunkSizes
  /\ chunk_overlap \in ProseOverlaps
  /\ pc = "idle" /\ op = ""
  /\ document = NoDoc /\ strategy = "" /\ text = <<>>
  /\ start = 0 /\ end = 0 /\ chunk_id = 0 /\ chunks = <<>>
  /\ sentences = <<>> /\ sent_idx = 1
  /\ current_chunk = <<>> /\ current_sentences = <<>>
  /\ ret = <<>> /\ value = <<>> /\ err = "none" /\ tick = 0
  /\ accepted = <<>> /\ rejected_at = {} /\ examined = {} /\ iterated = FALSE
  /\ closed = <<>>
  /\ verdicts = <<>>

\* the chunker used on prose documents
ProseNext ==
  \/ \E doc \in ProseDocuments, strat \in ValidStrategies : chunk_document(doc, strat)
  \/ FixedIter
  \/ FixedExit
  \/ SentIter
  \/ SentFinish
  \/ FilterAndReturn
  \/ \E t \in ProseTexts : ClassifyCall(t)
  \/ \E t \in ProseTexts : QualityCall(t)
  \/ \E t \in ProseTexts : ScoreCall(t)
  \/ \E cs \in ProseChunkSizes, overlap \in ProseOverlaps :
        set_chunking_strategy(cs, overlap)
  \/ Resume

ProseSpec == ProseInit /\ [][ProseNext]_vars

\* A call that has started runs on: the interpreter keeps executing the
\* splitter loops and the orchestrator's tail, and each of their steps flips
\* tick.  Whether the caller calls again is left open.
Running ==
  /\ pc \in {"fixed", "sentence", "filter"}
  /\ tick' = 1 - tick

FairSpec == Spec /\ WF_tick(Running)

(***************************************************************************)
(* Properties.                                                             *)
(***************************************************************************)
InChunkDocument == op = "chunk_document"
Returned == pc = "returned" /\ op = "chunk_document"
MissingKey(doc) == ~({"content", "metadata"} \subseteq DOMAIN doc)

\* C1: every iteration of the fixed-size loop that does not leave the loop
\* ends with the cursor start strictly greater than it began with, for every
\* chunk_size > 0 and chunk_overlap >= 0.
C1_CursorStrictlyIncreases ==
  [][(pc = "fixed" /\ pc' = "fixed") => start' > start]_vars

\* C2: the i-th chunk chunk_document returns (counting from 0) has chunk_id i.
C2_ChunkIdsContiguous ==
  Returned => \A i \in 1..Len(ret) : ret[i].chunk_id = i - 1

\* two or more chunks returned, with a rejected candidate between two of them
C2_Witness ==
  /\ Returned
  /\ Len(ret) >= 2
  /\ \E k \in rejected_at : 0 < k /\ k < Len(ret)

\* C3: chunk_document returns exactly the candidates that satisfy
\* is_quality_chunk, in the splitter's order; the final filter drops no chunk
\* of the splitter, and every returned chunk passes is_quality_chunk.
C3_ReturnsQualityCandidates ==
  Returned =>
    /\ Contents_of(ret) = accepted
    /\ Len(ret) = Len(chunks)
    /\ \A i \in 1..Len(ret) : is_quality_chunk(chunk_size, ret[i].content)

\* the sentence splitter returned a chunk after it rejected a buffer
C3_Witness ==
  /\ Returned
  /\ strategy = "sentence"
  /\ ret # <<>>
  /\ rejected_at # {}

\* C4: the step that calls chunk_document on a well-formed document with an
\* unknown strategy raises ValueError, produces no chunk and changes neither
\* chunk_size nor chunk_overlap.
C4_UnknownStrategyRaises ==
  [][(/\ pc = "idle"
      /\ op' = "chunk_document"
      /\ WellFormed(document')
      /\ strategy' \notin ValidStrategies)
     => (/\ pc' = "raised"
         /\ err' = "ValueError"
         /\ ret' = <<>> /\ chunks' = <<>> /\ accepted' = <<>>
         /\ chunk_size' = chunk_size
         /\ chunk_overlap' = chunk_overlap)]_vars

C4_Witness ==
  /\ InChunkDocument
  /\ pc = "raised" /\ err = "ValueError"
  /\ WellFormed(document)
  /\ strategy = "FIXED_SIZE"

\* C5 as claimed: a document without 'content' or without 'metadata' makes
\* chunk_document raise the error kind of an unknown strategy, ValueError.
C5_MissingKeyRaisesValueError ==
  (InChunkDocument /\ MissingKey(document)) =>
     (pc = "raised" /\ err = "ValueError" /\ ret = <<>>)

\* C5 as amended: a document without 'content' or without 'metadata' makes
\* chunk_document raise KeyError, whatever the strategy, and no chunk is
\* produced.
C5_MissingKeyRaisesKeyError ==
  (InChunkDocument /\ MissingKey(document)) =>
     (pc = "raised" /\ err = "KeyError" /\ ret = <<>> /\ chunks = <<>>)

\* a document without 'content', called with an unknown strategy
C5_Witness ==
  /\ InChunkDocument
  /\ pc = "raised" /\ err = "KeyError"
  /\ "content" \notin DOMAIN document
  /\ strategy \notin ValidStrategies

\* C6: a run of a splitter in which no candidate passes the quality filter
\* (the empty content included) ends with chunk_document returning the empty
\* sequence without an error.
C6_NoQualityReturnsEmpty ==
  (pc \in {"fixed", "sentence"} /\ accepted = <<>>)
     ~> (\/ Returned /\ ret = <<>> /\ err = "none"
         \/ accepted # <<>>)

\* C7 as claimed: classify_content_type("") is main_content.
C7_EmptyIsMainContent ==
  (pc = "returned" /\ op = "classify_content_type" /\ text = <<>>)
     => value = "main_content"

\* C7 as amended: classify_content_type returns one of the five content
\* types for every text, and header for the empty text.
C7_ClassifyTotal ==
  (pc = "returned" /\ op = "classify_content_type") =>
     /\ value \in ContentTypes
     /\ text = <<>> => value = "header"

C7_Witness ==
  /\ pc = "returned" /\ op = "classify_content_type"
  /\ text = <<>>
  /\ value = "header"

\* C8: calculate_quality_score returns a value in [0, 1], and 0 for the
\* empty text.
C8_ScoreBounds ==
  (pc = "returned" /\ op = "calculate_quality_score") =>
     /\ value.den > 0
     /\ 0 <= value.num /\ value.num <= value.den
     /\ text = <<>> => value.num = 0

\* a text that earns all three components of the score
C8_Witness ==
  /\ pc = "returned" /\ op = "calculate_quality_score"
  /\ LengthScore(chunk_size, Len(text)) > 0
  /\ RegexWords(text).total >= MIN_WORDS
  /\ StructureScore(text) > 0
  /\ value.num > 0

\* C9: with chunk_overlap = 0 or chunk_overlap >= 10 every window of the
\* fixed-size splitter begins at the end of the one before; the spans of the
\* emitted chunks are in order without overlap and their end_pos values
\* increase strictly.
C9_WindowsAbut ==
  (/\ InChunkDocument
   /\ strategy = "fixed_size"
   /\ (chunk_overlap = 0 \/ chunk_overlap >= MIN_PROGRESS)) =>
     /\ pc = "fixed" => start = end
     /\ \A i \in 1..Len(chunks) :
          chunks[i].metadata.start_pos < chunks[i].metadata.end_pos
     /\ \A i \in 1..(Len(chunks) - 1) :
          /\ chunks[i].metadata.end_pos <= chunks[i + 1].metadata.start_pos
          /\ chunks[i].metadata.end_pos < chunks[i + 1].metadata.end_pos

\* two chunks emitted with an overlap of 10 or more
C9_Witness ==
  /\ InChunkDocument
  /\ strategy = "fixed_size"
  /\ chunk_overlap >= MIN_PROGRESS
  /\ Len(chunks) >= 2

\* C10 as claimed: with chunk_overlap = 0 the fixed-size loop ends only with
\* the cursor at len(content), its windows having covered every position.
C10_StopsOnlyAtEnd ==
  (/\ InChunkDocument
   /\ strategy = "fixed_size"
   /\ chunk_overlap = 0
   /\ pc \in {"filter", "returned"}) =>
     /\ start >= Len(document.content)
     /\ examined = 0..(Len(document.content) - 1)

\* C10 as amended: with chunk_overlap = 0 the windows taken so far cover
\* exactly the positions before end, and the loop ends with the cursor at
\* len(content) or on a window that is empty once trimmed.
C10_CoversUpToBlankWindow ==
  (/\ InChunkDocument
   /\ strategy = "fixed_size"
   /\ chunk_overlap = 0
   /\ pc \in {"fixed", "filter", "returned"}) =>
     /\ examined = 0..(end - 1)
     /\ pc \in {"filter", "returned"} =>
          \/ start >= Len(document.content) /\ end = Len(document.content)
          \/ /\ end = Min(start + chunk_size, Len(document.content))
             /\ Strip(Slice(document.content, start, end)) = <<>>

\* the loop ended on a blank window with text left after it
C10_Witness ==
  /\ InChunkDocument
  /\ strategy = "fixed_size"
  /\ chunk_overlap = 0
  /\ pc = "filter"
  /\ start < end /\ end < Len(document.content)
  /\ \E i \in (end + 1)..Len(document.content) : document.content[i] \notin Space

\* C11: the metadata of every chunk chunk_document returns agrees with the
\* chunk's content: chunk_size is the length of content, content_type is
\* classify_content_type(content) and quality_score is
\* calculate_quality_score(content) under the chunker's chunk_size.
C11_MetadataAgreesWithContent ==
  Returned =>
    \A i \in 1..Len(ret) :
       /\ ret[i].metadata.chunk_size = Len(ret[i].content)
       /\ ret[i].metadata.content_type = classify_content_type(ret[i].content)
       /\ ret[i].metadata.quality_score =
            calculate_quality_score(chunk_size, ret[i].content)

\* the sentence splitter returned a chunk of a run that seeded a buffer with
\* an overlap tail
C11_Witness ==
  /\ Returned
  /\ strategy = "sentence"
  /\ chunk_overlap > 0
  /\ ret # <<>>
  /\ Len(current_sentences) >= 2

\* C12: between two settings of the chunker's parameters is_quality_chunk
\* returns the same value for the same content at every point of every
\* sequence of classifier, evaluator, splitter and chunk_document calls: the
\* first and the latest value it returned for Probe agree.
C12_VerdictDependsOnContentOnly ==
  /\ Len(verdicts) = 2 => verdicts[1] = verdicts[2]
  /\ (pc = "returned" /\ op = "is_quality_chunk" /\ text = Probe) =>
        (verdicts # <<>> /\ value = verdicts[1])

\* chunk_document returned Probe as its second chunk: the splitter and the
\* final filter evaluated it after they had evaluated the first chunk
C12_Witness ==
  /\ Returned
  /\ Len(ret) >= 2
  /\ ret[2].content = Probe
  /\ Len(verdicts) = 2
  /\ verdicts[2] = TRUE

InSentenceLoop == pc = "sentence" /\ pc' = "sentence"

\* C13: in the sentence splitter a sentence is appended to a non-empty
\* buffer without closing it only when the resulting buffer text is at most
\* chunk_size, and with chunk_overlap = 0 every buffer of two or more
\* sentences has a text of at most chunk_size characters.
C13_BufferWithinChunkSize ==
  [][InSentenceLoop =>
       /\ (/\ current_chunk # <<>>
           /\ ~ClosesBuffer(chunk_size, current_chunk, sentences[sent_idx]))
            => Len(current_chunk') <= chunk_size
       /\ (chunk_overlap = 0 /\ Len(current_sentences') >= 2)
            => Len(current_chunk') <= chunk_size]_vars

RECURSIVE Flatten(_)
Flatten(lists) == IF lists = <<>> THEN <<>> ELSE Head(lists) \o Flatten(Tail(lists))

\* C14: when the sentence splitter closes a buffer of n sentences, the next
\* buffer is the last max(1, min(3, floor(n/3))) sentences of the closed one
\* followed by the new sentence if chunk_overlap > 0, and the new sentence
\* alone if chunk_overlap = 0; with chunk_overlap = 0 the closed buffers and
\* the open one, in order, are the sentences consumed so far.
C14_OverlapTail ==
  [][InSentenceLoop =>
       /\ Len(closed') > Len(closed) =>
            LET n == Len(current_sentences)
                k == Max(1, Min(3, n \div 3))
            IN  /\ closed' = Append(closed, current_sentences)
                /\ current_sentences' =
                     IF chunk_overlap > 0
                     THEN SubSeq(current_sentences, n - k + 1, n) \o <<sentences[sent_idx]>>
                     ELSE <<sentences[sent_idx]>>
       /\ chunk_overlap = 0 =>
            Flatten(closed') \o current_sentences' = SubSeq(sentences, 1, sent_idx)]_vars

\* a buffer of twelve or more sentences was closed and three of them seed
\* the open buffer
C14_Witness ==
  /\ InChunkDocument /\ strategy = "sentence" /\ pc = "sentence"
  /\ chunk_overlap > 0
  /\ closed # <<>>
  /\ Len(closed[Len(closed)]) >= 12
  /\ Len(current_sentences) = 4

\* the trimmed pieces of the split of line 204
TrimmedFragments(s) == [i \in 1..Len(RegexSplit(s)) |-> Strip(RegexSplit(s)[i])]

SentenceSplitterRan ==
  InChunkDocument /\ strategy = "sentence" /\ pc \in {"sentence", "filter", "returned"}

\* C15 as claimed: the sentences of the sentence splitter are the trimmed
\* fragments of 20 or more characters, in order.
C15_KeepsFragmentsFrom20 ==
  SentenceSplitterRan =>
    sentences = SelectSeq(TrimmedFragments(document.content),
                          LAMBDA f : Len(f) >= MIN_SENTENCE_LEN)

\* C15 as amended: the sentences of the sentence splitter are the trimmed
\* fragments of more than 20 characters, in order; a fragment of exactly 20
\* characters is dropped.
C15_KeepsFragmentsAbove20 ==
  SentenceSplitterRan =>
    sentences = SelectSeq(TrimmedFragments(document.content),
                          LAMBDA f : Len(f) >= MIN_SENTENCE_LEN + 1)

\* a document with a fragment of 20 characters and one of 21
C15_Witness ==
  /\ SentenceSplitterRan
  /\ \E i \in 1..Len(RegexSplit(document.content)) :
        Len(TrimmedFragments(document.content)[i]) = MIN_SENTENCE_LEN
  /\ \E i \in 1..Len(sentences) : Len(sentences[i]) = MIN_SENTENCE_LEN + 1

\* the characters content[start : start + chunk_size] of the window at the
\* cursor
RawWindow == PySlice(document.content, start, start + chunk_size)

\* C16: a window of the fixed-size splitter that is not the last one
\* (start + chunk_size < len(content)) and holds two or more sentence-ending
\* matches ends at the document position of the end of the last such match
\* inside content[start : start + chunk_size], and a chunk appended for it
\* holds the text from start to that position, trimmed.
C16_SnapsToLastSentenceEnd ==
  [][(/\ pc = "fixed"
      /\ 0 <= start
      /\ start + chunk_size < Len(document.content)
      /\ SentenceBreaks(RawWindow).count >= 2)
     => LET last_end == start + SentenceBreaks(RawWindow).last_end
        IN  /\ end' = last_end
            /\ Len(chunks') > Len(chunks) =>
                 /\ chunks'[Len(chunks')].metadata.end_pos = last_end
                 /\ chunks'[Len(chunks')].content =
                      Strip(Slice(document.content, start, last_end))]_vars

\* C17: every chunk the fixed-size splitter has emitted has
\* 0 <= start_pos < end_pos <= len(content) and
\* end_pos - start_pos <= chunk_size, and its content is
\* content[start_pos:end_pos] without leading and trailing whitespace.
C17_SpanHoldsContent ==
  (InChunkDocument /\ strategy = "fixed_size") =>
    \A i \in 1..Len(chunks) :
       LET a == chunks[i].metadata.start_pos
           b == chunks[i].metadata.end_pos
       IN  /\ 0 <= a /\ a < b /\ b <= Len(document.content)
           /\ b - a <= chunk_size
           /\ chunks[i].content = Strip(Slice(document.content, a, b))

\* a chunk whose end was moved back by the boundary search and whose span
\* begins or ends with whitespace
C17_Witness ==
  /\ InChunkDocument /\ strategy = "fixed_size"
  /\ \E i \in 1..Len(chunks) :
        LET a == chunks[i].metadata.start_pos
            b == chunks[i].metadata.end_pos
        IN  /\ 0 < a
            /\ b < Min(a + chunk_size, Len(document.content))
            /\ Len(chunks[i].content) < b - a
====
